---- MODULE Spec2Model ----
(***************************************************************************)
(* A RIP-style distance-vector routing daemon (COSC364).  The repository   *)
(* holds two implementations of the same router:                           *)
(*   - src/COSC364/ai_router.py            (impl = "ai":  RIPPacket codec, *)
(*     Router.routes with tuple-encoded routes), and                       *)
(*   - src/COSC364/Reverse Engineer/Commentary/1Server.py (impl = "srv":   *)
(*     Router.routing_table with RoutingTableEntry objects).               *)
(* One router instance (own id 1, neighbours 2 and 3) is modelled; the     *)
(* datagrams it receives are chosen by the environment.  Time is an        *)
(* integer clock `now`; one unit is the periodic update interval.          *)
(* Human-readable table printing is outside the model.                     *)
(***************************************************************************)
EXTENDS Integers, Sequences, FiniteSets, TLC

VARIABLES
    impl,                  \* which implementation this behaviour runs
    pc,                    \* position of the router in its event loop
    now,                   \* time.time(), in clock units
    readable,              \* sockets select() returned, not yet read
    data,                  \* the datagram last read by recvfrom()
    routes,                \* ai_router.py: Router.routes
    table_modified,        \* ai_router.py: run()'s local table_modified
    last_periodic_update,  \* ai_router.py: run()'s local, in tenths of a unit
    routing_table,         \* 1Server.py: Router.routing_table
    triggered_update_call, \* 1Server.py: Router.triggered_update_call
    timer,                 \* 1Server.py: Router.timer (class Timer)
    sent,                  \* the records handed to the encoder by the last broadcast
    condemned_at,          \* history: when each garbage route of ai_router.py
                           \* last went from not garbage to garbage
    triggered_at,          \* history: when the last triggered broadcast went
                           \* out (tenths), or -1 once the spacing has passed
    net,                   \* a network of router instances exchanging broadcasts
    codec,                 \* the codec under test (pure-function harness)
    marked                 \* history: an entry was marked changed in this loop
                           \* iteration

vars == <<impl, pc, now, readable, data, routes, table_modified,
          last_periodic_update, routing_table, triggered_update_call, timer,
          sent, condemned_at, triggered_at, net, codec, marked>>

----------------------------------------------------------------------------
(* Bounds of the model *)

\* the clock stops advancing at MaxTime
MaxTime == 12
\* longest record list the codec harness encodes
MaxRecords == 2

----------------------------------------------------------------------------
(* RIPPacket: constants and wire codec (ai_router.py) *)

HEADER_SIZE == 4
RTE_SIZE == 20
COMMAND_REQUEST == 1
COMMAND_RESPONSE == 2
VERSION == 2
INFINITY == 16

Min(a, b) == IF a < b THEN a ELSE b
Max(a, b) == IF a > b THEN a ELSE b

\* n as k little-endian bytes
PackLE(n, k) ==
    [i \in 1..k |->
        LET RECURSIVE Shift(_, _)
            Shift(x, j) == IF j = 0 THEN x ELSE Shift(x \div 256, j - 1)
        IN Shift(n, i - 1) % 256]

\* struct.pack('!H' / '!I'): n as k big-endian bytes
PackBE(n, k) ==
    [i \in 1..k |->
        LET RECURSIVE Shift(_, _)
            Shift(x, j) == IF j = 0 THEN x ELSE Shift(x \div 256, j - 1)
        IN Shift(n, k - i) % 256]

\* struct.unpack('!H' / '!I'): the big-endian value of a byte string
RECURSIVE UnpackBE(_)
UnpackBE(bs) ==
    IF bs = <<>> THEN 0
    ELSE UnpackBE(SubSeq(bs, 1, Len(bs) - 1)) * 256 + bs[Len(bs)]

Zeros(k) == [i \in 1..k |-> 0]

create_header(router_id, command, version) ==
    <<command, version>> \o PackBE(router_id, 2)

create_rte(dest_id, metric) ==
    Zeros(12) \o PackBE(dest_id, 4) \o PackBE(metric, 4)

\* create_response(): packet += create_rte(dest_id, metric) for each route,
\* written byte by byte so that long route lists evaluate without deep
\* recursion
AppendRtes(packet, rs) ==
    packet \o [k \in 1..(RTE_SIZE * Len(rs)) |->
                 LET r == rs[((k - 1) \div RTE_SIZE) + 1]
                 IN create_rte(r[1], r[2])[((k - 1) % RTE_SIZE) + 1]]

create_response(router_id, rs) ==
    AppendRtes(create_header(router_id, COMMAND_RESPONSE, VERSION), rs)

\* parse() returns None, or (command, version, router_id, routes)
ParseNone == [ok |-> FALSE, command |-> 0, version |-> 0, router_id |-> 0,
              routes |-> <<>>]

\* a range check that accepts every metric
AcceptAnyMetric(metric) == metric = metric

\* parse(): the metric range check of one record
MetricInRange(metric) == 0 <= metric /\ metric <= INFINITY

\* parse(): the records i .. rte_count - 1 of the packet, in order, those
\* with a metric out of range left out
ParseRte(bytes, i) ==
    LET start == HEADER_SIZE + i * RTE_SIZE
        rte == SubSeq(bytes, start + 1, start + RTE_SIZE)
        dest_id == UnpackBE(SubSeq(rte, 13, 16))
        metric == UnpackBE(SubSeq(rte, 17, 20))
    IN <<dest_id, metric>>
ParseRtes(bytes, i, rte_count) ==
    LET Valid(r) == MetricInRange(r[2])
    IN SelectSeq([k \in 1..Max(rte_count - i, 0) |-> ParseRte(bytes, i + k - 1)],
                 Valid)

parse(bytes) ==
    IF Len(bytes) < HEADER_SIZE THEN ParseNone
    ELSE IF bytes[2] # VERSION THEN ParseNone
    ELSE [ok |-> TRUE, command |-> bytes[1], version |-> bytes[2],
          router_id |-> UnpackBE(SubSeq(bytes, 3, 4)),
          routes |-> ParseRtes(bytes, 0, (Len(bytes) - HEADER_SIZE) \div RTE_SIZE)]

----------------------------------------------------------------------------
(* Configuration of the modelled router (parse_config / Router.__init__)    *)

\* router-id of the modelled router
SelfId == 1
\* outputs: peer router id -> link cost (metric) of the configured neighbours
outputs == (2 :> 1) @@ (3 :> 2)
Neighbours == DOMAIN outputs
\* number of input ports, one socket each
NumSockets == 1

\* ai_router.py timers; the clock unit is 30 s, so these are the defaults
periodic_update_interval == 1
route_timeout == 6
garbage_collection_timeout == 4
\* the self-route's timestamp float('inf')
FLOAT_INF == 1000000
\* random.uniform(-0.1, 0.1) * periodic_update_interval, in tenths of a unit;
\* only jitter 0 is drawn
Jitter == {0}

\* 1Server.py timers
timer_value == 1
timeout_time == timer_value * 6
garbage_time == timer_value * 4

Put(f, k, v) == [x \in (DOMAIN f) \cup {k} |-> IF x = k THEN v ELSE f[x]]

----------------------------------------------------------------------------
(* ai_router.py: Router *)

Route(next_hop, metric, timestamp, garbage) ==
    [next_hop |-> next_hop, metric |-> metric, timestamp |-> timestamp,
     garbage |-> garbage]

\* Router.__init__: directly connected routers, then ourselves with metric 0
InitialRoutes(t) ==
    [d \in Neighbours \cup {SelfId} |->
        IF d = SelfId THEN Route(SelfId, 0, FLOAT_INF, FALSE)
        ELSE Route(d, outputs[d], t, FALSE)]

\* the sum of link cost and advertised metric, not clamped
NewMetricNoClamp(base_metric, metric) == base_metric + metric

\* the new metric process_update computes for an advertised metric
NewMetric(base_metric, metric) == Min(base_metric + metric, INFINITY)

\* a same-neighbour update that reports a modification on a mere refresh
SameNeighbourAlwaysModified(cur, router_id, new_metric, t) ==
    IF new_metric >= INFINITY /\ cur.metric < INFINITY
    THEN [route |-> Route(router_id, INFINITY, t, TRUE), modified |-> TRUE]
    ELSE [route |-> Route(router_id, new_metric, t, cur.garbage),
          modified |-> TRUE]

\* a same-neighbour update that leaves the timestamp of an unchanged route
SameNeighbourStale(cur, router_id, new_metric, t) ==
    IF new_metric # cur.metric THEN
        IF new_metric >= INFINITY /\ cur.metric < INFINITY
        THEN [route |-> Route(router_id, INFINITY, t, TRUE), modified |-> TRUE]
        ELSE [route |-> Route(router_id, new_metric, t, cur.garbage),
              modified |-> TRUE]
    ELSE [route |-> cur, modified |-> FALSE]

\* a same-neighbour update that stores an unreachable metric without
\* starting garbage collection
SameNeighbourNoGarbage(cur, router_id, new_metric, t) ==
    IF new_metric # cur.metric
    THEN [route |-> Route(router_id, new_metric, t, cur.garbage),
          modified |-> TRUE]
    ELSE [route |-> Route(router_id, cur.metric, t, cur.garbage),
          modified |-> FALSE]

\* a same-neighbour update that does not take a worse metric
SameNeighbourKeepsBetter(cur, router_id, new_metric, t) ==
    IF new_metric < cur.metric
    THEN [route |-> Route(router_id, new_metric, t, cur.garbage),
          modified |-> TRUE]
    ELSE [route |-> Route(router_id, cur.metric, t, cur.garbage),
          modified |-> FALSE]

\* process_update(): the route is from the same neighbour (cur.next_hop =
\* router_id): the new route, and whether the table was modified
SameNeighbour(cur, router_id, new_metric, t) ==
    IF new_metric # cur.metric THEN
        IF new_metric >= INFINITY /\ cur.metric < INFINITY
        THEN [route |-> Route(router_id, INFINITY, t, TRUE), modified |-> TRUE]
        ELSE [route |-> Route(router_id, new_metric, t, cur.garbage),
              modified |-> TRUE]
    ELSE [route |-> Route(router_id, cur.metric, t, cur.garbage),
          modified |-> FALSE]

\* process_update(): "Skip if destination is ourselves"
AiSkipDest(dest_id) == dest_id = SelfId

\* one pass of process_update's loop body, for the record r = (dest_id, metric)
\* acc = [routes, modified]
ProcessRoute(acc, router_id, base_metric, r, t) ==
    LET rt == acc.routes
        dest_id == r[1]
        new_metric == NewMetric(base_metric, r[2])
        Set(v) == [routes |-> Put(rt, dest_id, v), modified |-> TRUE]
    IN  IF AiSkipDest(dest_id) THEN acc
        ELSE IF dest_id \in DOMAIN rt THEN
            LET cur == rt[dest_id] IN
            IF cur.next_hop = router_id THEN
                LET res == SameNeighbour(cur, router_id, new_metric, t)
                IN [routes |-> Put(rt, dest_id, res.route),
                    modified |-> (acc.modified \/ res.modified)]
            ELSE IF new_metric < cur.metric
                 THEN Set(Route(router_id, new_metric, t, FALSE))
                 ELSE acc
        ELSE IF new_metric < INFINITY
             THEN Set(Route(router_id, new_metric, t, FALSE))
             ELSE acc

RECURSIVE ProcessRoutes(_, _, _, _, _)
ProcessRoutes(acc, router_id, base_metric, rs, t) ==
    IF rs = <<>> THEN acc
    ELSE ProcessRoutes(ProcessRoute(acc, router_id, base_metric, Head(rs), t),
                       router_id, base_metric, Tail(rs), t)

\* a lookup that finds no output entry for any router
NoNeighbourKnown(router_id) == router_id # router_id

\* process_update(): is there an output entry for this neighbour
KnownNeighbour(router_id) == router_id \in Neighbours

\* process_update(router_id, routes) at time t: the table and the returned flag
process_update(rt, router_id, rs, t) ==
    IF ~KnownNeighbour(router_id)
    THEN [routes |-> rt, modified |-> FALSE]
    ELSE ProcessRoutes([routes |-> rt, modified |-> FALSE], router_id,
                       outputs[router_id], rs, t)

\* check_timeouts() at time t
AiExpiredGarbage(rt, t) ==
    {d \in DOMAIN rt : d # SelfId /\ rt[d].garbage
                       /\ t - rt[d].timestamp > garbage_collection_timeout}
AiTimedOut(rt, t) ==
    {d \in DOMAIN rt : d # SelfId /\ ~rt[d].garbage
                       /\ t - rt[d].timestamp > route_timeout}
check_timeouts(rt, t) ==
    [routes |-> [d \in (DOMAIN rt) \ AiExpiredGarbage(rt, t) |->
                    IF d \in AiTimedOut(rt, t)
                    THEN Route(rt[d].next_hop, INFINITY, t, TRUE)
                    ELSE rt[d]],
     modified |-> AiExpiredGarbage(rt, t) # {} \/ AiTimedOut(rt, t) # {}]

\* routes_to_send without poisoned reverse: every stored metric as it is
RoutesToSendNoPoison(rt, neighbor_id) ==
    {<<d, rt[d].metric>> : d \in DOMAIN rt}

\* send_updates(): routes_to_send for one neighbour (split horizon with
\* poisoned reverse), as the set of (dest_id, metric) records
RoutesToSend(rt, neighbor_id) ==
    {<<d, IF rt[d].next_hop = neighbor_id THEN INFINITY ELSE rt[d].metric>> :
        d \in DOMAIN rt}
send_updates(rt) == [n \in Neighbours |-> RoutesToSend(rt, n)]

\* the history of condemnations after the table went from rt to rt2 at time t
Condemned(hist, rt, rt2, t) ==
    [d \in {x \in DOMAIN rt2 : rt2[x].garbage} |->
        IF d \in DOMAIN rt /\ rt[d].garbage THEN hist[d] ELSE t]

\* run(): one received datagram: parse, then process_update for a response
AiHandle(rt, bytes, t) ==
    LET parsed == parse(bytes) IN
    IF parsed.ok /\ parsed.command = COMMAND_RESPONSE
    THEN process_update(rt, parsed.router_id, parsed.routes, t)
    ELSE [routes |-> rt, modified |-> FALSE]

----------------------------------------------------------------------------
(* 1Server.py: Router.  packets.py (decode_packet, encode_packet),          *)
(* forwarding_table.py (RoutingTableEntry) and timer.py (Timer) are not in  *)
(* the source tree; they are modelled from the specification.               *)

\* RoutingTableEntry(dst_id, next_hop, metric); dst_id is the table key
RoutingTableEntry(next_hop, metric) ==
    [next_hop |-> next_hop, metric |-> metric, changed_flag |-> FALSE,
     garbage_flag |-> FALSE, timeout |-> 0, garbage_time |-> 0]

\* RoutingTableEntry.init_timeout() / init_garbage() at time t
init_timeout(e, t) == [e EXCEPT !.timeout = t]
init_garbage(e, t) == [e EXCEPT !.garbage_time = t]

\* decode_packet(data): (src_id, entries), or failure
DecodeFailure == [ok |-> FALSE, src_id |-> 0, entries |-> <<>>]
decode_packet(bytes) ==
    IF Len(bytes) < HEADER_SIZE THEN DecodeFailure
    ELSE IF bytes[2] # VERSION THEN DecodeFailure
    ELSE IF (Len(bytes) - HEADER_SIZE) % RTE_SIZE # 0 THEN DecodeFailure
    ELSE [ok |-> TRUE, src_id |-> UnpackBE(SubSeq(bytes, 3, 4)),
          entries |-> ParseRtes(bytes, 0, (Len(bytes) - HEADER_SIZE) \div RTE_SIZE)]

\* the advertised metric taken as it is, without the link cost
LinkedMetricNoCost(src_id, metric) == metric

\* the metric resolve_update gives an entry received from src_id
LinkedMetric(src_id, metric) ==
    IF src_id \in Neighbours THEN Min(metric + outputs[src_id], INFINITY)
    ELSE metric

\* a destination test that skips nothing
SkipNoDest(dst_id) == dst_id # dst_id

\* resolve_update(): entries about routing to this router itself are skipped
SrvSkipDest(dst_id) == dst_id = SelfId

\* an aging test that every route passes
AlwaysAging(cur, t) == cur.timeout <= t

\* resolve_update() CASE 3: the current route is aging
Aging(cur, t) == 2 * t >= 2 * cur.timeout + timeout_time

\* one pass of resolve_update's loop body, for the record r = (dst_id, metric)
\* acc = [table, trig]
ResolveEntry(acc, src_id, r, t) ==
    LET tbl == acc.table
        dst_id == r[1]
        metric == LinkedMetric(src_id, r[2])
        entry == [init_timeout(RoutingTableEntry(src_id, metric), t)
                     EXCEPT !.changed_flag = TRUE]
        Store(e) == [acc EXCEPT !.table = Put(tbl, dst_id, e)]
    IN  IF SrvSkipDest(dst_id) THEN acc
        ELSE IF dst_id \notin DOMAIN tbl THEN
            IF metric # INFINITY THEN Store(entry) ELSE acc
        ELSE LET cur == tbl[dst_id] IN
            IF cur.garbage_flag /\ metric < INFINITY THEN Store(entry)
            ELSE IF metric = cur.metric THEN
                IF src_id = cur.next_hop THEN Store(init_timeout(cur, t))
                ELSE IF Aging(cur, t) THEN Store(entry)
                ELSE acc
            ELSE IF (cur.next_hop = src_id /\ metric # cur.metric)
                    \/ metric < cur.metric THEN
                IF metric = INFINITY
                THEN [table |-> Put(tbl, dst_id,
                                    init_garbage([entry EXCEPT !.garbage_flag = TRUE], t)),
                      trig |-> TRUE]
                ELSE Store(entry)
            ELSE acc

RECURSIVE ResolveEntries(_, _, _, _)
ResolveEntries(acc, src_id, rs, t) ==
    IF rs = <<>> THEN acc
    ELSE ResolveEntries(ResolveEntry(acc, src_id, Head(rs), t), src_id, Tail(rs), t)

\* resolve_update(data) at time t: the table and triggered_update_call
resolve_update(tbl, trig, bytes, t) ==
    LET d == decode_packet(bytes) IN
    IF ~d.ok THEN [table |-> tbl, trig |-> trig]
    ELSE ResolveEntries([table |-> tbl, trig |-> trig], d.src_id, d.entries, t)

\* check_timeout() at time t
SrvTimedOut(tbl, t) ==
    {d \in DOMAIN tbl : ~tbl[d].garbage_flag /\ t >= tbl[d].timeout + timeout_time}
check_timeout(tbl, t) ==
    [d \in DOMAIN tbl |->
        IF d \in SrvTimedOut(tbl, t)
        THEN [init_garbage(tbl[d], t) EXCEPT !.garbage_flag = TRUE,
                                             !.metric = INFINITY,
                                             !.changed_flag = TRUE]
        ELSE tbl[d]]

\* a removal list that is always empty
RemoveNone(tbl, t) == {}

\* check_garbage() at time t
remove_list(tbl, t) ==
    {d \in DOMAIN tbl : tbl[d].garbage_flag /\ t >= tbl[d].garbage_time + garbage_time}
check_garbage(tbl, t) == [d \in (DOMAIN tbl) \ remove_list(tbl, t) |-> tbl[d]]

\* entries_sh_pr for one neighbour: split horizon with poisoned reverse over
\* the entries ents (a set of destinations of tbl), as (dst_id, metric) records
EntriesShPr(tbl, ents, peer_id) ==
    {<<d, IF tbl[d].next_hop = peer_id THEN INFINITY ELSE tbl[d].metric>> :
        d \in ents}

\* a table whose changed flags are left as they are
KeepFlags(tbl) == tbl

\* triggered_update(): the entries marked as changed, and what is sent
ChangedEntries(tbl) == {d \in DOMAIN tbl : tbl[d].changed_flag}
triggered_update_out(tbl) ==
    [n \in Neighbours |-> EntriesShPr(tbl, ChangedEntries(tbl), n)]
triggered_update_table(tbl) ==
    [d \in DOMAIN tbl |-> [tbl[d] EXCEPT !.changed_flag = FALSE]]

\* a periodic update of the stored entries only
PeriodicOutStored(tbl) ==
    [n \in Neighbours |-> EntriesShPr(tbl, DOMAIN tbl, n)]

\* a periodic update that poisons the stored entries themselves
PoisonStored(tbl) ==
    [d \in DOMAIN tbl |->
        [tbl[d] EXCEPT !.metric = INFINITY, !.changed_flag = FALSE]]

\* periodic_update(): a route to self with 0 cost, then the whole table
periodic_update_out(tbl) ==
    [n \in Neighbours |-> {<<SelfId, 0>>} \cup EntriesShPr(tbl, DOMAIN tbl, n)]
periodic_update_table(tbl) ==
    [d \in DOMAIN tbl |-> [tbl[d] EXCEPT !.changed_flag = FALSE]]

\* Timer: times in tenths of a unit
min_triggered_spacing == 5
TimerDue(tm, t) == 10 * t - tm.last_periodic_time >= 10 * timer_value
triggered_update_allowed(tm, t) ==
    10 * t - tm.last_triggered_time >= min_triggered_spacing

----------------------------------------------------------------------------
(* The datagrams the environment may deliver to the router's sockets *)

Rec(d, m) == <<d, m>>

\* well-formed responses of the neighbours 2 and 3 about destination 5, two
\* of them with neighbour 2's own route, one naming destination 5 twice
Adverts ==
    {create_response(2, <<Rec(5, m)>>) : m \in {0, 1}}
    \cup {create_response(3, <<Rec(5, m)>>) : m \in {0, 16}}
    \cup {create_response(2, <<Rec(2, 0), Rec(5, m)>>) : m \in {0, 16}}
    \cup {create_response(2, <<Rec(5, 1), Rec(5, 15)>>)}

\* a record for the router's own id, alone and before another record
SelfOnly == create_response(2, <<Rec(SelfId, 3)>>)
SelfFirst == create_response(3, <<Rec(SelfId, 0), Rec(5, 1)>>)
SelfAdverts == {SelfOnly, SelfFirst}

\* a record whose metric is out of range, after a record in range
OutOfRangeAdverts == {create_response(2, <<Rec(5, 1), Rec(5, 17)>>)}

\* a response of router 4, which is not a configured neighbour
UnknownAdverts == {create_response(4, <<Rec(5, 1)>>)}

\* a request (command 1) of neighbour 2
RequestPackets ==
    {create_header(2, COMMAND_REQUEST, VERSION) \o create_rte(5, 1)}

TooShort == <<COMMAND_RESPONSE, VERSION, 0>>
WrongVersion == create_header(2, COMMAND_RESPONSE, 1) \o create_rte(5, 1)
Misaligned == create_response(2, <<Rec(5, 1)>>) \o <<0>>
MalformedPackets == {TooShort, WrongVersion, Misaligned}

Datagrams ==
    Adverts \cup SelfAdverts \cup OutOfRangeAdverts \cup UnknownAdverts
    \cup RequestPackets \cup MalformedPackets

NoData == <<>>
NoSent == [kind |-> "none", out |-> [n \in Neighbours |-> {}]]
Sent(kind, out) == [kind |-> kind, out |-> out]
EmptyTable == [d \in {} |-> 0]
CodecIdle == [pc |-> "idle"]
NetIdle == [pc |-> "idle"]

----------------------------------------------------------------------------
(* The event loop *)

Init ==
    /\ impl \in {"ai", "srv"}
    /\ pc = "start"
    /\ now = 0
    /\ readable = 0
    /\ data = NoData
    /\ routes = IF impl = "ai" THEN InitialRoutes(0) ELSE EmptyTable
    /\ table_modified = FALSE
    /\ last_periodic_update = 0
    /\ routing_table = EmptyTable
    /\ triggered_update_call = FALSE
    /\ timer = [last_periodic_time |-> 0, last_triggered_time |-> 0]
    /\ sent = NoSent
    /\ condemned_at = EmptyTable
    /\ triggered_at = -1
    /\ marked = FALSE
    /\ net = NetIdle
    /\ codec = CodecIdle

\* run(): setup, the initial send_updates(), last_periodic_update = time.time()
AiStart ==
    /\ impl = "ai" /\ pc = "start"
    /\ sent' = Sent("periodic", send_updates(routes))
    /\ last_periodic_update' = 10 * now
    /\ pc' = "select"
    /\ UNCHANGED <<impl, now, readable, data, routes, table_modified,
                   routing_table, triggered_update_call, timer, condemned_at, triggered_at, net,
                   codec, marked>>

\* main(): Timer(timer_value, periodic_update), timer.start_timer()
SrvStart ==
    /\ impl = "srv" /\ pc = "start"
    /\ timer' = [last_periodic_time |-> 10 * now, last_triggered_time |-> 10 * now]
    /\ pc' = "select"
    /\ UNCHANGED <<impl, now, readable, data, routes, table_modified,
                   last_periodic_update, routing_table, triggered_update_call,
                   sent, condemned_at, triggered_at, net,
                   codec, marked>>

\* the history of the last triggered broadcast, forgotten once the minimum
\* spacing has passed at time t
SpacingPassed(at, t) ==
    IF at # -1 /\ 10 * t - at >= min_triggered_spacing THEN -1 ELSE at

\* resolve_update() marked an entry changed on the way from tbl to tbl2: an
\* entry that is new, newly flagged, or replaced while flagged
MarkedChanged(tbl, tbl2) ==
    \E d \in DOMAIN tbl2 :
        /\ tbl2[d].changed_flag
        /\ \/ d \notin DOMAIN tbl
           \/ ~tbl[d].changed_flag
           \/ tbl2[d].next_hop # tbl[d].next_hop
           \/ tbl2[d].metric # tbl[d].metric
           \/ tbl2[d].garbage_flag # tbl[d].garbage_flag

AfterRecv == IF impl = "ai" THEN "timeouts" ELSE "timer"

\* select.select(sockets, [], [], timeout): up to one clock unit passes, and
\* n sockets are readable
Select ==
    /\ pc = "select"
    /\ \E k \in {0, 1}, n \in 0..NumSockets :
        /\ now + k <= MaxTime
        /\ now' = now + k
        /\ readable' = n
        /\ pc' = IF n = 0 THEN AfterRecv ELSE "recv"
    /\ data' = NoData
    /\ sent' = NoSent
    /\ table_modified' = FALSE
    /\ marked' = FALSE
    /\ triggered_at' = SpacingPassed(triggered_at, now')
    /\ UNCHANGED <<impl, routes, last_periodic_update, routing_table,
                   triggered_update_call, timer, condemned_at, net,
                   codec>>

\* run(): recvfrom, parse, process_update for one readable socket
AiReceiveFrom(D) ==
    /\ impl = "ai" /\ pc = "recv"
    /\ \E dg \in D :
        LET res == AiHandle(routes, dg, now)
        IN /\ data' = dg
           /\ routes' = res.routes
           /\ table_modified' = (table_modified \/ res.modified)
           /\ marked' = (marked \/ res.modified)
           /\ condemned_at' = Condemned(condemned_at, routes, res.routes, now)
    /\ readable' = readable - 1
    /\ pc' = IF readable = 1 THEN AfterRecv ELSE "recv"
    /\ UNCHANGED <<impl, now, last_periodic_update, routing_table,
                   triggered_update_call, timer, sent, triggered_at, net, codec>>
AiReceive == AiReceiveFrom(Datagrams)

\* run(): table_modified |= check_timeouts()
AiCheckTimeouts ==
    /\ impl = "ai" /\ pc = "timeouts"
    /\ LET res == check_timeouts(routes, now)
       IN /\ routes' = res.routes
          /\ table_modified' = (table_modified \/ res.modified)
          /\ marked' = (marked \/ AiTimedOut(routes, now) # {})
          /\ condemned_at' = Condemned(condemned_at, routes, res.routes, now)
    /\ pc' = "triggered"
    /\ data' = NoData
    /\ UNCHANGED <<impl, now, readable, last_periodic_update, routing_table,
                   triggered_update_call, timer, sent, triggered_at, net, codec>>

\* run(): if table_modified: send_updates(triggered=True)
AiTriggered ==
    /\ impl = "ai" /\ pc = "triggered"
    /\ sent' = IF table_modified THEN Sent("triggered", send_updates(routes))
               ELSE sent
    /\ pc' = "periodic"
    /\ triggered_at' = IF table_modified THEN 10 * now ELSE triggered_at
    /\ UNCHANGED <<impl, now, readable, data, routes, table_modified,
                   last_periodic_update, routing_table, triggered_update_call,
                   timer, condemned_at, net,
                   codec, marked>>

\* run(): the periodic update when it is due, rescheduled with jitter
AiPeriodic ==
    /\ impl = "ai" /\ pc = "periodic"
    /\ IF 10 * now - last_periodic_update >= 10 * periodic_update_interval
       THEN /\ \E jitter \in Jitter : last_periodic_update' = 10 * now + jitter
            /\ sent' = Sent("periodic", send_updates(routes))
       ELSE UNCHANGED <<last_periodic_update, sent>>
    /\ pc' = "select"
    /\ UNCHANGED <<impl, now, readable, data, routes, table_modified,
                   routing_table, triggered_update_call, timer, condemned_at, triggered_at, net,
                   codec, marked>>

\* main(): recvfrom and resolve_update for one readable socket
SrvReceiveFrom(D) ==
    /\ impl = "srv" /\ pc = "recv"
    /\ \E dg \in D :
        LET res == resolve_update(routing_table, triggered_update_call, dg, now)
        IN /\ data' = dg
           /\ routing_table' = res.table
           /\ triggered_update_call' = res.trig
           /\ marked' = (marked \/ MarkedChanged(routing_table, res.table))
    /\ readable' = readable - 1
    /\ pc' = IF readable = 1 THEN AfterRecv ELSE "recv"
    /\ UNCHANGED <<impl, now, routes, table_modified, last_periodic_update,
                   timer, sent, condemned_at, triggered_at, net,
                   codec>>
SrvReceive == SrvReceiveFrom(Datagrams)

\* main(): timer.update_timer(), which calls periodic_update() when due
SrvUpdateTimer ==
    /\ impl = "srv" /\ pc = "timer"
    /\ IF TimerDue(timer, now)
       THEN /\ \E jitter \in Jitter :
                 timer' = [timer EXCEPT !.last_periodic_time = 10 * now + jitter]
            /\ sent' = Sent("periodic", periodic_update_out(routing_table))
            /\ routing_table' = periodic_update_table(routing_table)
            /\ triggered_update_call' = FALSE
       ELSE UNCHANGED <<timer, sent, routing_table, triggered_update_call>>
    /\ pc' = "timeout"
    /\ data' = NoData
    /\ UNCHANGED <<impl, now, readable, routes, table_modified,
                   last_periodic_update, condemned_at, triggered_at, net,
                   codec, marked>>

\* main(): check_timeout()
SrvCheckTimeout ==
    /\ impl = "srv" /\ pc = "timeout"
    /\ routing_table' = check_timeout(routing_table, now)
    /\ triggered_update_call' =
          (triggered_update_call \/ SrvTimedOut(routing_table, now) # {})
    /\ marked' = (marked \/ SrvTimedOut(routing_table, now) # {})
    /\ pc' = "garbage"
    /\ UNCHANGED <<impl, now, readable, data, routes, table_modified,
                   last_periodic_update, timer, sent, condemned_at, triggered_at, net,
                   codec>>

\* main(): check_garbage()
SrvCheckGarbage ==
    /\ impl = "srv" /\ pc = "garbage"
    /\ routing_table' = check_garbage(routing_table, now)
    /\ pc' = "triggered"
    /\ UNCHANGED <<impl, now, readable, data, routes, table_modified,
                   last_periodic_update, triggered_update_call, timer, sent, condemned_at, triggered_at, net,
                   codec, marked>>

\* main(): if triggered_update_call and timer.triggered_update_allowed():
\*             triggered_update()
SrvTriggered ==
    /\ impl = "srv" /\ pc = "triggered"
    /\ IF triggered_update_call /\ triggered_update_allowed(timer, now)
       THEN /\ sent' = IF ChangedEntries(routing_table) # {}
                       THEN Sent("triggered", triggered_update_out(routing_table))
                       ELSE sent
            /\ routing_table' = triggered_update_table(routing_table)
            /\ triggered_update_call' = FALSE
            /\ timer' = [timer EXCEPT !.last_triggered_time = 10 * now]
       ELSE UNCHANGED <<sent, routing_table, triggered_update_call, timer>>
    /\ pc' = "select"
    /\ triggered_at' = IF sent'.kind = "triggered" /\ sent' # sent
                       THEN 10 * now ELSE triggered_at
    /\ UNCHANGED <<impl, now, readable, data, routes, table_modified,
                   last_periodic_update, condemned_at, net,
                   codec, marked>>

Next ==
    \/ AiStart \/ SrvStart \/ Select
    \/ AiReceive \/ AiCheckTimeouts \/ AiTriggered \/ AiPeriodic
    \/ SrvReceive \/ SrvUpdateTimer \/ SrvCheckTimeout \/ SrvCheckGarbage
    \/ SrvTriggered

Spec == Init /\ [][Next]_vars

----------------------------------------------------------------------------
(* The codec on its own: a sender id and a record list are encoded by       *)
(* create_response, the packet is parsed, and the result is handed to        *)
(* process_update of a freshly constructed router, as run() does.            *)

\* values up to 2^31 - 1 stand for the unsigned 32-bit fields
CodecSenders == {0, 2, 258, 65535}
CodecRecords == {Rec(d, m) : d \in {0, 5, 65538, 2147483647},
                             m \in {0, 1, 16, 17, 256, 2147483647}}
\* sock.recvfrom(2048): the receive buffer of run()
RECV_BUFSIZE == 2048
\* what recvfrom returns for a datagram: the datagram, or, when it is longer
\* than the buffer, its first RECV_BUFSIZE bytes (the rest is discarded) or
\* an error, which run() catches and which leaves nothing to parse
Recvfrom(bytes) ==
    IF Len(bytes) <= RECV_BUFSIZE THEN {bytes}
    ELSE {SubSeq(bytes, 1, RECV_BUFSIZE), <<>>}

\* one record more than fits into the receive buffer behind a header
ManyRecords == (RECV_BUFSIZE - HEADER_SIZE) \div RTE_SIZE + 1
LongList == [i \in 1..ManyRecords |-> Rec(10 + i, 1)]
CodecLists == UNION {[1..n -> CodecRecords] : n \in 0..MaxRecords}
\* the sender and the records to encode; the long list is sent by a router
\* that is not a neighbour of the receiver
CodecInputs ==
    {<<s, rs>> : s \in CodecSenders, rs \in CodecLists} \cup {<<65535, LongList>>}

InitCodec ==
    /\ impl = "codec"
    /\ pc = "idle"
    /\ now = 0
    /\ readable = 0
    /\ data = NoData
    /\ routes = EmptyTable
    /\ table_modified = FALSE
    /\ last_periodic_update = 0
    /\ routing_table = EmptyTable
    /\ triggered_update_call = FALSE
    /\ timer = [last_periodic_time |-> 0, last_triggered_time |-> 0]
    /\ sent = NoSent
    /\ condemned_at = EmptyTable
    /\ triggered_at = -1
    /\ marked = FALSE
    /\ net = NetIdle
    /\ codec \in {[pc |-> "input", sender |-> in[1], records |-> in[2],
                   packet |-> <<>>, parsed |-> ParseNone, datagram |-> <<>>,
                   table |-> InitialRoutes(0)] : in \in CodecInputs}

RouterIdle ==
    UNCHANGED <<impl, pc, now, readable, data, routes, table_modified,
                last_periodic_update, routing_table, triggered_update_call,
                timer, sent, condemned_at, triggered_at, net, marked>>

CodecEncode ==
    /\ codec.pc = "input"
    /\ codec' = [codec EXCEPT !.pc = "encoded",
                              !.packet = create_response(codec.sender, codec.records)]
    /\ RouterIdle

CodecParse ==
    /\ codec.pc = "encoded"
    /\ codec' = [codec EXCEPT !.pc = "parsed", !.parsed = parse(codec.packet)]
    /\ RouterIdle

CodecProcess ==
    /\ codec.pc = "parsed"
    /\ \E dg \in Recvfrom(codec.packet) :
          codec' = [codec EXCEPT !.pc = "processed",
                                 !.datagram = dg,
                                 !.table = AiHandle(codec.table, dg, now).routes]
    /\ RouterIdle

NextCodec == CodecEncode \/ CodecParse \/ CodecProcess

SpecCodec == InitCodec /\ [][NextCodec]_vars

----------------------------------------------------------------------------
(* Claims *)

\* C1: in every reachable state every routing-table entry's metric is an
\* integer in 0..16 (INFINITY), in both routers: a candidate metric
\* advertised metric + link cost above 16 is clamped to 16.
C1_MetricBounded ==
    /\ \A d \in DOMAIN routes : routes[d].metric \in 0..INFINITY
    /\ \A d \in DOMAIN routing_table : routing_table[d].metric \in 0..INFINITY

\* C1 witness: neighbour 2 (link cost 1) has just advertised destination 5
\* with metric 16, a candidate of 17, and the stored metric is 16.
C1_Witness ==
    /\ data = create_response(2, <<Rec(2, 0), Rec(5, 16)>>)
    /\ \/ impl = "ai" /\ 5 \in DOMAIN routes /\ routes[5].next_hop = 2
          /\ routes[5].metric = INFINITY /\ routes[5].timestamp = now
       \/ impl = "srv" /\ 5 \in DOMAIN routing_table
          /\ routing_table[5].next_hop = 2
          /\ routing_table[5].metric = INFINITY /\ routing_table[5].timeout = now

\* the record set `out` sent to neighbour n poisons the entries of tbl whose
\* next hop is n and carries the stored metric of the others
Poisoned(out, tbl, n) ==
    \A r \in out :
        r[1] \in DOMAIN tbl =>
            /\ tbl[r[1]].next_hop = n => r[2] = INFINITY
            /\ tbl[r[1]].next_hop # n => r[2] = tbl[r[1]].metric
Dests(out) == {r[1] : r \in out}

\* C2: in every broadcast, periodic or triggered, an entry whose stored next
\* hop is the neighbour N it is sent to is advertised to N with metric 16
\* (poisoned, not omitted), and an entry whose next hop is not N is
\* advertised with its stored metric.
C2_SplitHorizon ==
    /\ (impl = "ai" /\ sent.kind # "none") =>
          \A n \in Neighbours :
              /\ Poisoned(sent.out[n], routes, n)
              /\ Dests(sent.out[n]) = DOMAIN routes
    /\ (impl = "srv" /\ pc = "timeout" /\ sent.kind = "periodic") =>
          \A n \in Neighbours :
              /\ Poisoned(sent.out[n], routing_table, n)
              /\ Dests(sent.out[n]) = DOMAIN routing_table \cup {SelfId}
              /\ <<SelfId, 0>> \in sent.out[n]
    /\ (impl = "srv" /\ pc = "select" /\ sent.kind = "triggered") =>
          \A n \in Neighbours :
              /\ Poisoned(sent.out[n], routing_table, n)
              /\ Dests(sent.out[n]) \subseteq DOMAIN routing_table
              /\ Dests(sent.out[n]) # {}
              /\ \A m \in Neighbours : Dests(sent.out[m]) = Dests(sent.out[n])

\* C2 witness: a triggered update of 1Server.py has just sent destination 2,
\* reached through neighbour 2 at a metric below 16, to neighbour 2 with
\* metric 16 and to neighbour 3 with the stored metric.
C2_Witness ==
    /\ impl = "srv" /\ pc = "select" /\ sent.kind = "triggered"
    /\ 2 \in DOMAIN routing_table
    /\ routing_table[2].next_hop = 2 /\ routing_table[2].metric < INFINITY
    /\ <<2, INFINITY>> \in sent.out[2]
    /\ <<2, routing_table[2].metric>> \in sent.out[3]

\* C3: at every timeout sweep each non-garbage entry (other than the
\* self-route) with now - last_update_time >= route_timeout is condemned
\* (metric 16, garbage flag set, garbage timer started at now, marked
\* changed, triggered update requested), and a non-garbage entry with
\* now - last_update_time < route_timeout is left untouched.
C3_TimeoutSweep ==
    [][/\ (impl = "ai" /\ pc = "timeouts") =>
            \A d \in (DOMAIN routes) \ {SelfId} :
                ~routes[d].garbage =>
                    IF now - routes[d].timestamp >= route_timeout
                    THEN /\ d \in DOMAIN routes'
                         /\ routes'[d] = Route(routes[d].next_hop, INFINITY, now, TRUE)
                         /\ table_modified'
                    ELSE d \in DOMAIN routes' /\ routes'[d] = routes[d]
       /\ (impl = "srv" /\ pc = "timeout") =>
            \A d \in DOMAIN routing_table :
                ~routing_table[d].garbage_flag =>
                    IF now - routing_table[d].timeout >= timeout_time
                    THEN /\ d \in DOMAIN routing_table'
                         /\ routing_table'[d] =
                               [routing_table[d] EXCEPT !.metric = INFINITY,
                                                        !.garbage_flag = TRUE,
                                                        !.garbage_time = now,
                                                        !.changed_flag = TRUE]
                         /\ triggered_update_call'
                    ELSE /\ d \in DOMAIN routing_table'
                         /\ routing_table'[d] = routing_table[d]
      ]_vars

\* C4: a garbage sweep deletes a condemned entry exactly when
\* now - garbage_start_time >= garbage_collection_timeout: it is deleted by
\* the first sweep at which that holds and by no earlier sweep, where
\* garbage_start_time is the moment the entry was condemned.
C4_GarbageSweep ==
    [][/\ (impl = "ai" /\ pc = "timeouts") =>
            \A d \in (DOMAIN routes) \ {SelfId} :
                routes[d].garbage =>
                    (d \notin DOMAIN routes'
                       <=> now - condemned_at[d] >= garbage_collection_timeout)
       /\ (impl = "srv" /\ pc = "garbage") =>
            \A d \in DOMAIN routing_table :
                routing_table[d].garbage_flag =>
                    (d \notin DOMAIN routing_table'
                       <=> now - routing_table[d].garbage_time >= garbage_time)
      ]_vars

\* the advertisement a router takes from a datagram: the sender and the
\* records, when the datagram is a response the decoder accepts
Accepted(bytes) ==
    IF impl = "srv" THEN decode_packet(bytes).ok
    ELSE parse(bytes).ok /\ parse(bytes).command = COMMAND_RESPONSE
Sender(bytes) == UnpackBE(SubSeq(bytes, 3, 4))
Records(bytes) ==
    IF impl = "srv" THEN decode_packet(bytes).entries ELSE parse(bytes).routes
NoRepeatedDest(rs) ==
    \A i, j \in 1..Len(rs) : rs[i][1] = rs[j][1] => i = j

\* two tables agree on every entry's next hop, metric and garbage flag
SameAiEntries(a, b) ==
    /\ DOMAIN a = DOMAIN b
    /\ \A d \in DOMAIN a : /\ a[d].next_hop = b[d].next_hop
                           /\ a[d].metric = b[d].metric
                           /\ a[d].garbage = b[d].garbage
SameSrvEntries(a, b) ==
    /\ DOMAIN a = DOMAIN b
    /\ \A d \in DOMAIN a : /\ a[d].next_hop = b[d].next_hop
                           /\ a[d].metric = b[d].metric
                           /\ a[d].garbage_flag = b[d].garbage_flag
Unflagged(tbl) == [d \in DOMAIN tbl |-> [tbl[d] EXCEPT !.changed_flag = FALSE]]

\* the update in `data` has just been applied; applying it a second time at
\* once changes no next hop, metric or garbage flag, creates or removes no
\* entry and reports no modification (sets no changed flag and requests no
\* triggered update when the flags of the first application are cleared)
SecondApplicationIdle ==
    /\ impl = "ai" =>
          LET again == AiHandle(routes, data, now)
          IN SameAiEntries(again.routes, routes) /\ ~again.modified
    /\ impl = "srv" =>
          LET again == resolve_update(routing_table, triggered_update_call,
                                      data, now)
              clean == resolve_update(Unflagged(routing_table), FALSE, data, now)
          IN /\ SameSrvEntries(again.table, routing_table)
             /\ SameSrvEntries(clean.table, routing_table)
             /\ \A d \in DOMAIN clean.table : ~clean.table[d].changed_flag
             /\ ~clean.trig

JustApplied ==
    /\ pc = AfterRecv /\ data # NoData
    /\ Accepted(data) /\ Sender(data) \in Neighbours

\* C5 (as stated): apply_update is idempotent for any table state, any
\* configured neighbour and any advertisement list: a second application
\* immediately after the first changes no next hop, metric or garbage flag,
\* creates or removes no entry and reports no modification.
C5_IdempotentAnyList == JustApplied => SecondApplicationIdle

\* C5 (amended): apply_update is idempotent for any table state, any
\* configured neighbour and any advertisement list in which no destination
\* id occurs twice.
C5_Idempotent ==
    (JustApplied /\ NoRepeatedDest(Records(data))) => SecondApplicationIdle

\* C5 witness: ai_router.py has just applied neighbour 2's advertisement of
\* itself and of destination 5, which modified the table; destination 5 is
\* stored via 2, and a second application reports no modification.
C5_Witness ==
    /\ impl = "ai" /\ pc = "timeouts" /\ table_modified
    /\ data = create_response(2, <<Rec(2, 0), Rec(5, 0)>>)
    /\ 5 \in DOMAIN routes /\ routes[5] = Route(2, 1, now, FALSE)
    /\ ~AiHandle(routes, data, now).modified

InRangeRec(r) == r[2] \in 0..INFINITY

\* C6: for every sender id in 0..65535 and every record list with metrics
\* in 0..16, RIPPacket.parse of RIPPacket.create_response yields command
\* RESPONSE, version 2, the same sender id and the same records in the same
\* order.
C6_RoundTrip ==
    (/\ codec.pc \in {"parsed", "processed"}
     /\ codec.sender \in 0..65535
     /\ \A i \in 1..Len(codec.records) : InRangeRec(codec.records[i]))
    => codec.parsed = [ok |-> TRUE, command |-> COMMAND_RESPONSE,
                       version |-> 2, router_id |-> codec.sender,
                       routes |-> codec.records]

\* C6 witness: sender 65535 with the records (2147483647, 16), (5, 0) has
\* been encoded and parsed back.
C6_Witness ==
    /\ codec.pc = "parsed" /\ codec.sender = 65535
    /\ codec.records = <<Rec(2147483647, 16), Rec(5, 0)>>
    /\ Len(codec.packet) = HEADER_SIZE + 2 * RTE_SIZE
    /\ codec.parsed.routes = codec.records

\* C7: a datagram shorter than the 4-byte header, or with a version field
\* other than 2, or with a payload that is not a whole multiple of the
\* 20-byte record size is rejected as a whole by ai_router.py: no record
\* of it is applied, the table is unchanged, and the loop continues.
C7_MalformedRejected ==
    [][(impl = "ai" /\ pc = "recv" /\ data' \in MalformedPackets) =>
          /\ routes' = routes
          /\ table_modified' = table_modified
          /\ pc' = IF readable = 1 THEN AfterRecv ELSE "recv"
      ]_vars

\* C8: in an otherwise well-formed packet a record whose metric lies
\* outside 0..16 is dropped individually: parse still succeeds and returns
\* exactly the in-range records in their original order, and those are
\* applied to the table.
C8_OutOfRangeDropped ==
    LET kept == SelectSeq(codec.records, InRangeRec) IN
    (/\ codec.pc \in {"parsed", "processed"}
     /\ \E i \in 1..Len(codec.records) : ~InRangeRec(codec.records[i]))
    => /\ codec.parsed.ok
       /\ codec.parsed.router_id = codec.sender
       /\ codec.parsed.routes = kept
       /\ codec.pc = "processed" =>
             codec.table =
                process_update(InitialRoutes(0), codec.sender, kept, now).routes

\* C8 witness: neighbour 2's packet with the records (5, 17), (5, 1) has
\* been parsed to the one record (5, 1) and applied: destination 5 is
\* stored via 2 with metric 2.
C8_Witness ==
    /\ codec.pc = "processed" /\ codec.sender = 2
    /\ codec.records = <<Rec(5, 17), Rec(5, 1)>>
    /\ codec.parsed.routes = <<Rec(5, 1)>>
    /\ 5 \in DOMAIN codec.table /\ codec.table[5] = Route(2, 2, now, FALSE)

\* C9: an update whose sender id is not the id of a configured neighbour is
\* rejected: the routing table after processing it is identical to the
\* table before, no changed flag is set and no update is requested.
C9_UnknownSenderRejected ==
    [][(pc = "recv" /\ data' \in UnknownAdverts) =>
          /\ routes' = routes
          /\ table_modified' = table_modified
          /\ routing_table' = routing_table
          /\ triggered_update_call' = triggered_update_call
      ]_vars

\* the datagram SelfFirst without its record for the router's own id
SelfFirstRest == create_response(3, <<Rec(5, 1)>>)

\* C10: an advertised record whose destination id is the router's own id
\* is ignored entirely, whatever its metric and sender: no entry for the
\* own id is ever created or changed (ai_router.py keeps its constructed
\* self-route, 1Server.py stores none), a datagram with only such a record
\* changes no entry, flag or timestamp, and a datagram with such a record
\* before another has the effect of the other record alone.
C10_SelfDestIgnored ==
    [][/\ SelfId \notin DOMAIN routing_table'
       /\ impl = "ai" => /\ SelfId \in DOMAIN routes'
                         /\ routes'[SelfId] = Route(SelfId, 0, FLOAT_INF, FALSE)
       /\ (pc = "recv" /\ data' = SelfOnly) =>
             /\ routes' = routes
             /\ table_modified' = table_modified
             /\ routing_table' = routing_table
             /\ triggered_update_call' = triggered_update_call
       /\ (pc = "recv" /\ data' = SelfFirst) =>
             LET ai == AiHandle(routes, SelfFirstRest, now)
                 srv == resolve_update(routing_table, triggered_update_call,
                                       SelfFirstRest, now)
             IN /\ impl = "ai" =>
                      /\ routes' = ai.routes
                      /\ table_modified' = (table_modified \/ ai.modified)
                /\ impl = "srv" =>
                      /\ routing_table' = srv.table
                      /\ triggered_update_call' = srv.trig
      ]_vars

\* C10 witness: 1Server.py has just received neighbour 3's datagram with a
\* record for the own id before a record for destination 5: destination 5
\* is stored via 3, and there is no entry for the own id.
C10_Witness ==
    /\ impl = "srv" /\ pc = "timer" /\ data = SelfFirst
    /\ SelfId \notin DOMAIN routing_table
    /\ 5 \in DOMAIN routing_table
    /\ routing_table[5].next_hop = 3 /\ routing_table[5].metric = 3
    /\ routing_table[5].timeout = now /\ routing_table[5].changed_flag

\* the receive step underway applies an update of a configured neighbour
Applying == pc = "recv" /\ Accepted(data') /\ Sender(data') \in Neighbours
\* destination d is named by exactly one record of the list rs
NamedOnce(rs, d) == Cardinality({i \in 1..Len(rs) : rs[i][1] = d}) = 1
\* the candidate metric of the record r advertised by neighbour S
Candidate(S, r) == IF r[2] + outputs[S] < 16 THEN r[2] + outputs[S] ELSE 16
\* the destinations that have an entry
Known == IF impl = "srv" THEN DOMAIN routing_table ELSE DOMAIN routes

\* C11: when a configured neighbour S with link cost c advertises (d, m) for
\* a destination d that has no entry, an entry is created if and only if
\* min(m + c, 16) < 16; the created entry has next hop S, metric m + c,
\* garbage flag false, a fresh timestamp, and is marked changed.
C11_NewRoute ==
    [][Applying =>
        \A i \in 1..Len(Records(data')) :
            LET r == Records(data')[i]
                d == r[1]
                S == Sender(data')
            IN (d # SelfId /\ d \notin Known /\ NamedOnce(Records(data'), d)) =>
                 IF Candidate(S, r) < 16
                 THEN /\ impl = "ai" =>
                            /\ d \in DOMAIN routes'
                            /\ routes'[d] = Route(S, r[2] + outputs[S], now, FALSE)
                            /\ table_modified'
                      /\ impl = "srv" =>
                            /\ d \in DOMAIN routing_table'
                            /\ routing_table'[d].next_hop = S
                            /\ routing_table'[d].metric = r[2] + outputs[S]
                            /\ ~routing_table'[d].garbage_flag
                            /\ routing_table'[d].timeout = now
                            /\ routing_table'[d].changed_flag
                 ELSE /\ d \notin DOMAIN routes'
                      /\ d \notin DOMAIN routing_table'
      ]_vars

\* C11 witness: 1Server.py, whose table is empty until time 0, has just
\* received (2, 0), (5, 0) from neighbour 2 (link cost 1) at time 0 and
\* holds the new entries 2 and 5 via 2 with metric 1, marked changed.
C11_Witness ==
    /\ impl = "srv" /\ pc = "timer" /\ now = 0
    /\ data = create_response(2, <<Rec(2, 0), Rec(5, 0)>>)
    /\ DOMAIN routing_table = {2, 5}
    /\ \A d \in {2, 5} : /\ routing_table[d].next_hop = 2
                         /\ routing_table[d].metric = 1
                         /\ routing_table[d].changed_flag
                         /\ ~routing_table[d].garbage_flag

----------------------------------------------------------------------------
(* A static network: four instances of the modelled router on a ring.       *)
(* Router x has the link of cost 1 to router x+1 and the link of cost 2 to  *)
(* router x-1, so every instance has the configuration above: in its own    *)
(* names it is router 1, its neighbours are 2 and 3, and the router         *)
(* opposite on the ring is 5.  Ids are translated between two routers'      *)
(* names on the wire.  Routes are refreshed before they time out, so the    *)
(* clock stays where no sweep condemns an entry.                            *)

NetRouters == {0, 1, 2, 3}
NetKinds == {"ai", "srv"}

\* the name router x uses for router z, and the router x means by a name
Rel(x, z) ==
    LET k == (z - x + 4) % 4
    IN CASE k = 0 -> SelfId [] k = 1 -> 2 [] k = 3 -> 3 [] k = 2 -> 5
Glob(x, n) ==
    CASE n = SelfId -> x [] n = 2 -> (x + 1) % 4 [] n = 3 -> (x + 3) % 4
      [] n = 5 -> (x + 2) % 4
NetNeighbours(x) == {Glob(x, n) : n \in Neighbours}

\* the records of a set in the order of their destinations
RECURSIVE SortedRecs(_)
SortedRecs(S) ==
    IF S = {} THEN <<>>
    ELSE LET r == CHOOSE r \in S : \A q \in S : r[1] <= q[1]
         IN <<r>> \o SortedRecs(S \ {r})

\* the periodic broadcast of router i for its neighbour j, as the datagram j
\* receives
NetOut(i, j) ==
    IF net.kind = "ai" THEN send_updates(net.tables[i])[Rel(i, j)]
    ELSE periodic_update_out(net.tables[i])[Rel(i, j)]
NetPacket(i, j) ==
    create_response(Rel(j, i),
        SortedRecs({<<Rel(j, Glob(i, r[1])), r[2]>> : r \in NetOut(i, j)}))

InitNet ==
    /\ impl = "net"
    /\ pc = "idle"
    /\ now = 0
    /\ readable = 0
    /\ data = NoData
    /\ routes = EmptyTable
    /\ table_modified = FALSE
    /\ last_periodic_update = 0
    /\ routing_table = EmptyTable
    /\ triggered_update_call = FALSE
    /\ timer = [last_periodic_time |-> 0, last_triggered_time |-> 0]
    /\ sent = NoSent
    /\ condemned_at = EmptyTable
    /\ triggered_at = -1
    /\ marked = FALSE
    /\ codec = CodecIdle
    /\ \E kind \in NetKinds :
          net = [pc |-> "run", kind |-> kind,
                 tables |-> [x \in NetRouters |->
                               IF kind = "ai" THEN InitialRoutes(0)
                               ELSE EmptyTable],
                 trig |-> [x \in NetRouters |-> FALSE]]

NetRest ==
    UNCHANGED <<impl, pc, now, readable, data, routes, table_modified,
                last_periodic_update, routing_table, triggered_update_call,
                timer, sent, condemned_at, triggered_at, codec, marked>>

\* the network after router i's periodic broadcast has reached its
\* neighbour j and j has applied it
NetAfter(i, j) ==
    LET packet == NetPacket(i, j)
        mine == IF net.kind = "ai" THEN net.tables[i]
                ELSE periodic_update_table(net.tables[i])
        ai == AiHandle(net.tables[j], packet, now)
        srv == resolve_update(net.tables[j], net.trig[j], packet, now)
    IN [net EXCEPT
          !.tables = [x \in NetRouters |->
                        IF x = j THEN (IF net.kind = "ai" THEN ai.routes
                                       ELSE srv.table)
                        ELSE IF x = i THEN mine ELSE net.tables[x]],
          !.trig = [x \in NetRouters |->
                      IF x = j /\ net.kind = "srv" THEN srv.trig
                      ELSE IF x = i THEN FALSE ELSE net.trig[x]]]

NetDeliver(i, j) ==
    /\ net.pc = "run" /\ j \in NetNeighbours(i)
    /\ net' = NetAfter(i, j)
    /\ NetRest

NextNet == \E i, j \in NetRouters : NetDeliver(i, j)

\* no broadcast changes the state of its sender or its receiver
NetQuiescent ==
    \A i \in NetRouters : \A j \in NetNeighbours(i) : NetAfter(i, j) = net

\* the routers keep broadcasting and the links keep delivering: as long as
\* some broadcast would change its receiver's or its sender's state, one
\* that does is delivered.  This is WF_vars(NextNet) with its enabling
\* condition, ~NetQuiescent, written out.
NetFairness == []<>NetQuiescent \/ []<><<NextNet>>_vars

SpecNet == InitNet /\ [][NextNet]_vars /\ NetFairness

\* link costs, and the cost of the cheapest path of at most k hops
LinkCost(x, y) == outputs[Rel(x, y)]
RECURSIVE PathCost(_, _, _)
PathCost(x, y, k) ==
    IF x = y THEN 0
    ELSE IF k = 0 THEN INFINITY
    ELSE LET via == {LinkCost(x, n) + PathCost(n, y, k - 1) : n \in NetNeighbours(x)}
         IN CHOOSE c \in via : \A e \in via : c <= e
ShortestCost(x, y) == PathCost(x, y, 3)

\* router x's entry for router y has the shortest-path cost and a next hop
\* on a shortest path
RouteConverged(x, y) ==
    LET tbl == net.tables[x]
        d == Rel(x, y)
    IN /\ d \in DOMAIN tbl
       /\ tbl[d].metric = ShortestCost(x, y)
       /\ Glob(x, tbl[d].next_hop) \in NetNeighbours(x)
       /\ LinkCost(x, Glob(x, tbl[d].next_hop))
             + ShortestCost(Glob(x, tbl[d].next_hop), y) = ShortestCost(x, y)
Converged ==
    /\ net.pc = "run"
    /\ \A x, y \in NetRouters : x # y => RouteConverged(x, y)

C13_TriggeredSpacing ==
    [][(pc = "triggered" /\ sent'.kind = "triggered") =>
          (triggered_at = -1 \/ 10 * now - triggered_at >= min_triggered_spacing)
      ]_vars

\* C14: the self-route (own id, metric 0) exists in every reachable state
\* and is never timed out, condemned, garbage-collected or altered: where
\* it is stored (ai_router.py) it stays (own id, metric 0, non-garbage),
\* and where it is implicit (1Server.py) every periodic broadcast
\* advertises the own id with metric 0.
C14_SelfRoute ==
    /\ impl = "ai" =>
          /\ SelfId \in DOMAIN routes
          /\ routes[SelfId].next_hop = SelfId
          /\ routes[SelfId].metric = 0
          /\ ~routes[SelfId].garbage
          /\ routes[SelfId].timestamp = FLOAT_INF
    /\ (impl \in {"ai", "srv"} /\ sent.kind = "periodic") =>
          \A n \in Neighbours :
              {r \in sent.out[n] : r[1] = SelfId} = {<<SelfId, 0>>}

\* C14 witness: ai_router.py after the route timeout has passed: the route
\* to neighbour 2 has been condemned, the self-route stands as constructed,
\* and the periodic broadcast just sent advertises the own id with metric 0.
C14_Witness ==
    /\ impl = "ai" /\ now > route_timeout
    /\ 2 \in DOMAIN routes /\ routes[2].garbage
    /\ routes[SelfId] = Route(SelfId, 0, FLOAT_INF, FALSE)
    /\ sent.kind = "periodic" /\ <<SelfId, 0>> \in sent.out[2]

\* the broadcast made by the step underway has sent destination d to every
\* neighbour
SentNow(d) ==
    /\ sent' # sent /\ sent'.kind \in {"periodic", "triggered"}
    /\ \A n \in Neighbours : d \in Dests(sent'.out[n])

\* C15: after a periodic broadcast every entry's changed flag is false;
\* after a triggered broadcast exactly the entries included in it (those
\* whose changed flag was true when it was built) have their flag cleared;
\* and no entry's flag is cleared without the entry having been sent.
C15_ChangedFlags ==
    [][impl = "srv" =>
        /\ (pc = "timer" /\ sent'.kind = "periodic") =>
              \A d \in DOMAIN routing_table' : ~routing_table'[d].changed_flag
        /\ (pc = "triggered" /\ sent'.kind = "triggered") =>
              /\ DOMAIN routing_table' = DOMAIN routing_table
              /\ \A n \in Neighbours :
                    Dests(sent'.out[n]) =
                       {d \in DOMAIN routing_table : routing_table[d].changed_flag}
              /\ \A d \in DOMAIN routing_table' : ~routing_table'[d].changed_flag
        /\ \A d \in DOMAIN routing_table \cap DOMAIN routing_table' :
              (routing_table[d].changed_flag /\ ~routing_table'[d].changed_flag)
                 => SentNow(d)
      ]_vars

\* C15 witness: a triggered update of 1Server.py has just sent the changed
\* entry 5 and nothing else; entry 2, which was not changed, was not sent,
\* and no changed flag is left set.
C15_Witness ==
    /\ impl = "srv" /\ pc = "select" /\ sent.kind = "triggered"
    /\ DOMAIN routing_table = {2, 5}
    /\ \A n \in Neighbours : Dests(sent.out[n]) = {5}
    /\ \A d \in DOMAIN routing_table : ~routing_table[d].changed_flag

\* C16: for a table of any number of entries a broadcast never emits a
\* datagram larger than the maximum datagram payload, and hence never one
\* larger than the receiver's receive buffer, so that the receiver obtains
\* every advertised record.
C16_DatagramFits ==
    /\ codec.pc \in {"encoded", "parsed", "processed"} =>
          Len(codec.packet) <= RECV_BUFSIZE
    /\ codec.pc = "processed" =>
          /\ codec.datagram = codec.packet
          /\ Len(parse(codec.datagram).routes)
                = Len(SelectSeq(codec.records, InRangeRec))

\* the entry for destination d is in garbage state
InGarbage(d) ==
    IF impl = "srv" THEN routing_table[d].garbage_flag ELSE routes[d].garbage

\* C17: when the entry for destination d is in garbage state and a
\* configured neighbour S, the entry's next hop or not, advertises d with a
\* candidate metric below 16, the entry is replaced by the candidate: next
\* hop S, metric the candidate, garbage flag false, marked changed,
\* timestamp refreshed.
C17_Resurrection ==
    [][Applying =>
        \A i \in 1..Len(Records(data')) :
            LET r == Records(data')[i]
                d == r[1]
                S == Sender(data')
            IN (d # SelfId /\ d \in Known /\ NamedOnce(Records(data'), d)
                /\ InGarbage(d) /\ Candidate(S, r) < 16) =>
                 /\ impl = "ai" =>
                       /\ routes'[d] = Route(S, Candidate(S, r), now, FALSE)
                       /\ table_modified'
                 /\ impl = "srv" =>
                       /\ routing_table'[d].next_hop = S
                       /\ routing_table'[d].metric = Candidate(S, r)
                       /\ ~routing_table'[d].garbage_flag
                       /\ routing_table'[d].timeout = now
                       /\ routing_table'[d].changed_flag
      ]_vars

\* the next hop and the metric of the entry for destination d
NextHopOf(d) ==
    IF impl = "srv" THEN routing_table[d].next_hop ELSE routes[d].next_hop
MetricOf(d) ==
    IF impl = "srv" THEN routing_table[d].metric ELSE routes[d].metric

\* C18: when the current next hop of a non-garbage entry advertises the
\* destination with a candidate metric equal to the stored metric, only the
\* entry's time of last update is refreshed: next hop, metric and garbage
\* flag stay, the changed flag is not set, and an update that is nothing
\* but this advertisement is not reported as a modification of the table.
C18_Keepalive ==
    [][Applying =>
        \A i \in 1..Len(Records(data')) :
            LET rs == Records(data')
                r == rs[i]
                d == r[1]
                S == Sender(data')
            IN (d # SelfId /\ d \in Known /\ NamedOnce(rs, d) /\ ~InGarbage(d)
                /\ NextHopOf(d) = S /\ Candidate(S, r) = MetricOf(d)) =>
                 /\ impl = "ai" =>
                       /\ routes'[d] = [routes[d] EXCEPT !.timestamp = now]
                       /\ Len(rs) = 1 => ~table_modified'
                 /\ impl = "srv" =>
                       /\ routing_table'[d] = [routing_table[d] EXCEPT !.timeout = now]
                       /\ Len(rs) = 1 =>
                             triggered_update_call' = triggered_update_call
      ]_vars

\* C18 witness: ai_router.py has just received (5, 0) from neighbour 2, the
\* next hop of its route to 5 with metric 1, later than the route was
\* learnt: the route is as it was with its timestamp at the time of
\* receipt, and no modification is reported.
C18_Witness ==
    /\ impl = "ai" /\ pc = "timeouts" /\ now >= 1
    /\ data = create_response(2, <<Rec(5, 0)>>)
    /\ 5 \in DOMAIN routes
    /\ routes[5] = Route(2, 1, now, FALSE)
    /\ ~table_modified

\* twice the age of the entry for destination d, and the timeout window
TwiceAge(d) ==
    IF impl = "srv" THEN 2 * (now - routing_table[d].timeout)
    ELSE 2 * (now - routes[d].timestamp)
TimeoutWindow == IF impl = "srv" THEN timeout_time ELSE route_timeout

\* C19: when a neighbour S that is not the entry's next hop advertises a
\* candidate metric equal to the stored metric of a non-garbage entry, the
\* entry is replaced by the candidate (next hop S, marked changed, timestamp
\* refreshed) if and only if the entry is more than half the timeout window
\* old; otherwise the entry, its timestamp included, is left unchanged.
C19_TieBreak ==
    [][Applying =>
        \A i \in 1..Len(Records(data')) :
            LET rs == Records(data')
                r == rs[i]
                d == r[1]
                S == Sender(data')
            IN (d # SelfId /\ d \in Known /\ NamedOnce(rs, d) /\ ~InGarbage(d)
                /\ NextHopOf(d) # S /\ Candidate(S, r) = MetricOf(d)) =>
                 IF TwiceAge(d) > TimeoutWindow
                 THEN /\ impl = "ai" =>
                            /\ routes'[d] = Route(S, Candidate(S, r), now, FALSE)
                            /\ table_modified'
                      /\ impl = "srv" =>
                            /\ routing_table'[d].next_hop = S
                            /\ routing_table'[d].metric = Candidate(S, r)
                            /\ routing_table'[d].timeout = now
                            /\ routing_table'[d].changed_flag
                 ELSE /\ impl = "ai" => routes'[d] = routes[d]
                      /\ impl = "srv" => routing_table'[d] = routing_table[d]
      ]_vars

\* C20: when the next hop S of a non-garbage entry with a metric below 16
\* advertises the destination with a candidate metric of 16, so that the
\* update replaces the entry, the entry becomes garbage in the same step:
\* metric 16, garbage flag true, the garbage timer started at the time of
\* receipt, marked changed, and a triggered update requested.
C20_Unreachable ==
    [][Applying =>
        \A i \in 1..Len(Records(data')) :
            LET rs == Records(data')
                r == rs[i]
                d == r[1]
                S == Sender(data')
            IN (d # SelfId /\ d \in Known /\ NamedOnce(rs, d) /\ ~InGarbage(d)
                /\ NextHopOf(d) = S /\ MetricOf(d) # INFINITY
                /\ Candidate(S, r) = INFINITY) =>
                 /\ impl = "ai" =>
                       /\ routes'[d] = Route(S, INFINITY, now, TRUE)
                       /\ table_modified'
                 /\ impl = "srv" =>
                       /\ routing_table'[d].next_hop = S
                       /\ routing_table'[d].metric = INFINITY
                       /\ routing_table'[d].garbage_flag
                       /\ routing_table'[d].garbage_time = now
                       /\ routing_table'[d].changed_flag
                       /\ triggered_update_call'
      ]_vars

\* C20 witness: ai_router.py, before any route can have timed out, has just
\* received (2, 0), (5, 16) from neighbour 2: the route to 2 is merely
\* refreshed, the route to 5 via 2 is garbage with metric 16 and its timer
\* at the time of receipt, and the modification is reported, so a triggered
\* update follows.
C20_Witness ==
    /\ impl = "ai" /\ pc = "timeouts" /\ now >= 1 /\ now <= route_timeout
    /\ data = create_response(2, <<Rec(2, 0), Rec(5, 16)>>)
    /\ 5 \in DOMAIN routes
    /\ routes[2] = Route(2, 1, now, FALSE)
    /\ routes[5] = Route(2, INFINITY, now, TRUE)
    /\ table_modified

\* the entry for destination d before and after the step
EntryOf(d) == IF impl = "srv" THEN routing_table[d] ELSE routes[d]
EntryAfter(d) == IF impl = "srv" THEN routing_table'[d] ELSE routes'[d]

C22_SameSource ==
    [][Applying =>
        \A i \in 1..Len(Records(data')) :
            LET rs == Records(data')
                r == rs[i]
                d == r[1]
                S == Sender(data')
            IN (d # SelfId /\ d \in Known /\ NamedOnce(rs, d)
                /\ NextHopOf(d) = S) =>
                 /\ d \in DOMAIN routes' \cup DOMAIN routing_table'
                 /\ EntryAfter(d).next_hop = S
                 /\ EntryAfter(d).metric = Candidate(S, r)
      ]_vars

\* C22 witness: ai_router.py has just received (5, 1) from neighbour 2 (link
\* cost 1) for its route to 5, which was condemned while via 2 and still
\* carries the garbage flag: the route is via 2 with the advertised metric 2.
C22_Witness ==
    /\ impl = "ai" /\ pc = "timeouts"
    /\ data = create_response(2, <<Rec(5, 1)>>)
    /\ 5 \in DOMAIN routes
    /\ routes[5] = Route(2, 2, now, TRUE)
    /\ table_modified

\* the records of a broadcast for one neighbour name the destinations of
\* the set D, each once
OneRecordEach(out, D) ==
    /\ Dests(out) = D
    /\ Cardinality(out) = Cardinality(D)

\* C23: a periodic broadcast to a neighbour contains one record for every
\* entry of the table, a garbage entry advertised as 16, and exactly one
\* record for the own router id, with metric 0; a triggered broadcast
\* contains exactly the entries whose changed flag is true, no unchanged
\* entry and no record for the own router id.
C23_BroadcastContents ==
    [][/\ (impl = "ai" /\ pc = "periodic" /\ sent'.kind = "periodic") =>
            \A n \in Neighbours :
                /\ OneRecordEach(sent'.out[n], DOMAIN routes)
                /\ <<SelfId, 0>> \in sent'.out[n]
                /\ \A d \in DOMAIN routes :
                      routes[d].garbage => <<d, INFINITY>> \in sent'.out[n]
       /\ (impl = "ai" /\ pc = "triggered" /\ sent'.kind = "triggered") =>
            \A n \in Neighbours : SelfId \notin Dests(sent'.out[n])
       /\ (impl = "srv" /\ pc = "timer" /\ sent'.kind = "periodic") =>
            \A n \in Neighbours :
                /\ OneRecordEach(sent'.out[n], DOMAIN routing_table \cup {SelfId})
                /\ <<SelfId, 0>> \in sent'.out[n]
                /\ \A d \in DOMAIN routing_table :
                      routing_table[d].garbage_flag =>
                          <<d, INFINITY>> \in sent'.out[n]
       /\ (impl = "srv" /\ pc = "triggered" /\ sent'.kind = "triggered") =>
            \A n \in Neighbours :
                OneRecordEach(sent'.out[n], ChangedEntries(routing_table))
      ]_vars

\* C24: in every loop iteration in which an entry was marked changed and
\* the scheduler permits a triggered broadcast, a triggered broadcast that
\* carries the changed entries is sent to the neighbours in that iteration.
C24_TriggeredSent ==
    [][/\ (impl = "ai" /\ pc = "triggered" /\ marked) =>
            /\ sent'.kind = "triggered"
            /\ \A n \in Neighbours : Dests(sent'.out[n]) = DOMAIN routes
       /\ (impl = "srv" /\ pc = "triggered" /\ marked
           /\ ChangedEntries(routing_table) # {}
           /\ triggered_update_allowed(timer, now)) =>
            /\ sent'.kind = "triggered"
            /\ \A n \in Neighbours :
                  Dests(sent'.out[n]) = ChangedEntries(routing_table)
      ]_vars

\* the periodic broadcast built from the table as it stands after the
\* timeout sweep and the garbage sweep at the present time
PeriodicAfterSweeps ==
    IF impl = "srv"
    THEN periodic_update_out(check_garbage(check_timeout(routing_table, now), now))
    ELSE send_updates(check_timeouts(routes, now).routes)

\* the sweeps of the present iteration have run
SweepsDone == pc \in {"triggered", "periodic", "select"}

\* C25: within a loop iteration the received datagrams are processed first,
\* then the timeout sweep and the garbage sweep run, then the triggered
\* broadcast is sent, then the periodic broadcast; a periodic broadcast is
\* built from the table as it stands after the iteration's sweeps.
C25_StepOrder ==
    [][/\ (pc # "start" /\ sent'.kind = "periodic" /\ sent' # sent) =>
            /\ sent'.out = PeriodicAfterSweeps
            /\ SweepsDone
       /\ (sent'.kind = "triggered" /\ sent' # sent) =>
            /\ SweepsDone
            /\ sent.kind # "periodic"
       /\ pc = "recv" => sent.kind = "none"
      ]_vars

\* the time base of the removal window of the entry e
GarbageStart(e) == IF impl = "srv" THEN e.garbage_time ELSE e.timestamp
IsGarbage(e) == IF impl = "srv" THEN e.garbage_flag ELSE e.garbage
\* the step underway is not the receipt of a datagram that names
\* destination d more than once
AtMostOnce(d) ==
    (pc = "recv" /\ Accepted(data')) =>
        Cardinality({i \in 1..Len(Records(data')) : Records(data')[i][1] = d}) <= 1

\* C26: the time base of the removal window is set exactly at the steps at
\* which an entry's garbage flag goes from false to true, and no other step
\* changes it while the entry remains in garbage state; an advertisement
\* that merely refreshes a garbage entry does not restart the window.
C26_GarbageStart ==
    [][Known # {} =>
        \A d \in DOMAIN routes' \cup DOMAIN routing_table' :
            (d # SelfId /\ d \in Known /\ IsGarbage(EntryAfter(d)) /\ AtMostOnce(d)) =>
                (IF IsGarbage(EntryOf(d))
                 THEN GarbageStart(EntryAfter(d)) = GarbageStart(EntryOf(d))
                 ELSE GarbageStart(EntryAfter(d)) = now)
      ]_vars

\* C28: every entry whose garbage flag is true has metric 16.
C28_GarbageUnreachable ==
    /\ \A d \in DOMAIN routes : routes[d].garbage => routes[d].metric = INFINITY
    /\ \A d \in DOMAIN routing_table :
          routing_table[d].garbage_flag => routing_table[d].metric = INFINITY

\* C29: every stored entry whose garbage flag is false has a metric
\* strictly below 16.
C29_ActiveReachable ==
    /\ \A d \in DOMAIN routes : ~routes[d].garbage => routes[d].metric < INFINITY
    /\ \A d \in DOMAIN routing_table :
          ~routing_table[d].garbage_flag => routing_table[d].metric < INFINITY

----------------------------------------------------------------------------
(* The router on a clock that never stops.  Time is kept relative to the    *)
(* present: now stays at Horizon and a clock tick moves every stored time   *)
(* one unit into the past.  A stored time older than Horizon is kept at 0:  *)
(* Horizon is beyond every threshold the code compares an age with, and the *)
(* sweeps run in every loop iteration.  The neighbours advertise            *)
(* destination 5 only.                                                      *)

Horizon == route_timeout + 1

AgeDatagrams ==
    {create_response(2, <<Rec(5, 0)>>), create_response(2, <<Rec(5, 16)>>),
     create_response(3, <<Rec(5, 14)>>)}

\* a time, in clock units or in tenths, one clock unit later
Older(t) == IF t = FLOAT_INF THEN t ELSE Max(t - 1, 0)
OlderTenths(t) == Max(t - 10, 0)

InitAge ==
    /\ impl \in {"ai", "srv"}
    /\ pc = "start"
    /\ now = Horizon
    /\ readable = 0
    /\ data = NoData
    /\ routes = IF impl = "ai" THEN InitialRoutes(Horizon) ELSE EmptyTable
    /\ table_modified = FALSE
    /\ last_periodic_update = 0
    /\ routing_table = EmptyTable
    /\ triggered_update_call = FALSE
    /\ timer = [last_periodic_time |-> 0, last_triggered_time |-> 0]
    /\ sent = NoSent
    /\ condemned_at = EmptyTable
    /\ triggered_at = -1
    /\ marked = FALSE
    /\ net = NetIdle
    /\ codec = CodecIdle

\* select.select(sockets, [], [], timeout): k clock units pass, and n
\* sockets are readable
SelectAge(k) ==
    /\ pc = "select"
    /\ \E n \in 0..NumSockets :
        /\ readable' = n
        /\ pc' = IF n = 0 THEN AfterRecv ELSE "recv"
    /\ data' = NoData
    /\ sent' = NoSent
    /\ table_modified' = FALSE
    /\ marked' = FALSE
    /\ IF k = 0
       THEN /\ triggered_at' = SpacingPassed(triggered_at, now)
            /\ UNCHANGED <<routes, routing_table, last_periodic_update, timer,
                           condemned_at>>
       ELSE /\ triggered_at' = -1
            /\ routes' = [d \in DOMAIN routes |->
                            [routes[d] EXCEPT !.timestamp = Older(@)]]
            /\ routing_table' =
                  [d \in DOMAIN routing_table |->
                      [routing_table[d] EXCEPT !.timeout = Older(@),
                                               !.garbage_time = Older(@)]]
            /\ last_periodic_update' = OlderTenths(last_periodic_update)
            /\ timer' = [last_periodic_time |-> OlderTenths(timer.last_periodic_time),
                         last_triggered_time |-> OlderTenths(timer.last_triggered_time)]
            /\ condemned_at' = [d \in DOMAIN condemned_at |-> Older(condemned_at[d])]
    /\ UNCHANGED <<impl, now, triggered_update_call, net, codec>>

Tick == SelectAge(1)

NextAge ==
    \/ AiStart \/ SrvStart \/ SelectAge(0) \/ Tick
    \/ AiReceiveFrom(AgeDatagrams) \/ AiCheckTimeouts \/ AiTriggered \/ AiPeriodic
    \/ SrvReceiveFrom(AgeDatagrams) \/ SrvUpdateTimer \/ SrvCheckTimeout
    \/ SrvCheckGarbage \/ SrvTriggered

\* the loop keeps iterating (the wait in select is bounded), and time keeps
\* advancing
\* NextAge is enabled in every state (every position of the loop has a
\* step), so weak fairness of NextAge is that its steps recur
LoopFairness == []<><<NextAge>>_vars
SpecAge == InitAge /\ [][NextAge]_vars /\ LoopFairness /\ SF_vars(Tick)

\* no datagram arrives
Quiet == readable = 0 /\ pc # "recv"
\* no learned entry is left
NothingLearned ==
    IF impl = "srv" THEN routing_table = EmptyTable ELSE DOMAIN routes = {SelfId}

Condemned5 == 5 \in Known /\ InGarbage(5)
\* an advertisement of destination 5 with a candidate metric below 16 has
\* just been received from a neighbour
Resurrection5 ==
    /\ Accepted(data) /\ Sender(data) \in Neighbours
    /\ \E i \in 1..Len(Records(data)) :
          /\ Records(data)[i][1] = 5
          /\ Candidate(Sender(data), Records(data)[i]) < 16

\* C30: a condemned entry that is not resurrected by an advertisement with
\* a candidate metric below 16 is eventually deleted, whatever
\* advertisements of metric 16 arrive for it, as long as time advances and
\* the loop iterates.
C30_CondemnedDeleted == Condemned5 ~> (5 \notin Known \/ Resurrection5)

----------------------------------------------------------------------------
(* Broadcasts and the stored routes *)

\* the step builds and sends a broadcast: send_updates() is called, or
\* periodic_update() / triggered_update() runs
Broadcasting ==
    \/ impl = "ai" /\ pc = "triggered" /\ table_modified
    \/ impl = "ai" /\ pc = "periodic"
          /\ 10 * now - last_periodic_update >= 10 * periodic_update_interval
    \/ impl = "srv" /\ pc = "timer" /\ TimerDue(timer, now)
    \/ impl = "srv" /\ pc = "triggered"
          /\ triggered_update_call /\ triggered_update_allowed(timer, now)

\* the entries of 1Server.py's table after the step are those before it,
\* changed flags apart
TableKept ==
    /\ DOMAIN routing_table' = DOMAIN routing_table
    /\ \A d \in DOMAIN routing_table :
          /\ routing_table'[d].next_hop = routing_table[d].next_hop
          /\ routing_table'[d].metric = routing_table[d].metric
          /\ routing_table'[d].garbage_flag = routing_table[d].garbage_flag
          /\ routing_table'[d].timeout = routing_table[d].timeout
          /\ routing_table'[d].garbage_time = routing_table[d].garbage_time

\* C31: building and sending a broadcast, periodic or triggered, leaves the
\* stored routes as they are: no entry is added or removed, and no entry's
\* next hop, metric, garbage flag or timestamps changes; the poisoned metric
\* goes into the advertised copy only, and at most changed flags (and the
\* pending triggered update) change.
C31_BroadcastFrame ==
    [][Broadcasting => (routes' = routes /\ TableKept)]_vars

\* a periodic broadcast of 1Server.py has just poisoned the route to 5 for
\* its next hop 2 and advertised it as stored to neighbour 3, and the stored
\* metric is still below 16
C31_Witness ==
    /\ impl = "srv" /\ pc = "timeout"
    /\ sent.kind = "periodic" /\ timer.last_periodic_time = 10 * now
    /\ 5 \in DOMAIN routing_table
    /\ routing_table[5].next_hop = 2
    /\ routing_table[5].metric < INFINITY
    /\ <<5, INFINITY>> \in sent.out[2]
    /\ <<5, routing_table[5].metric>> \in sent.out[3]

====
